---- MODULE Spec2Model ----
(***************************************************************************)
(* Model of src/lib.rs of unicode_border: TextBorderOptions, its three     *)
(* line builders and create_text_border.                                   *)
(*                                                                         *)
(* A Rust `char` is modelled by a name ("a", "U+00E9", ...), a `String` /  *)
(* `&str` by the sequence of its chars.  `str::len()` is the length in     *)
(* BYTES of the UTF-8 encoding, so it is modelled by byte_len, never by    *)
(* Len.  `usize` is UsizeBits wide and `+` on it either panics (overflow   *)
(* checks on, the debug profile) or wraps (overflow checks off, release).  *)
(***************************************************************************)
EXTENDS Integers, Sequences, FiniteSets, TLC

\* ------------------------------------------------------------------ bounds
MaxLen == 3               \* longest message drawn by Init
MaxTotalThickness == 5    \* largest sum of the eight thicknesses drawn by InitLayout

\* ------------------------------------------------------- machine integers
UsizeBits == 16      \* width of usize (lib.rs:22); 16 is Rust's narrowest target
USIZE_MAX == 2^UsizeBits - 1
ISIZE_MAX == 2^(UsizeBits - 1) - 1
\* size_of::<String>() is three words (pointer, capacity, length)
StringSize == 3 * (UsizeBits \div 8)

\* ------------------------------------------------------------ characters
NL == "\n"
SP == " "
\* chars a message is drawn from: ASCII letter, 2-byte letter, two whitespaces
MessageChars == {"a", "U+00E9", SP, NL}
\* border chars: the default one, a 3-byte block character and the line break
BorderChars == {"*", "U+2588", NL}

\* char::len_utf8, the number of bytes a char adds to str::len()
len_utf8(c) ==
    IF c = "U+00E9" THEN 2
    ELSE IF c = "U+2588" THEN 3
    ELSE 1

\* char::is_whitespace, the test str::trim() applies
is_whitespace(c) == c \in {SP, NL}

\* str::len(): the byte length of the UTF-8 encoding
RECURSIVE byte_len(_)
byte_len(s) ==
    IF s = <<>> THEN 0 ELSE len_utf8(Head(s)) + byte_len(Tail(s))

\* str::repeat(n) for a string s
repeat(s, n) ==
    [i \in 1..(Len(s) * n) |-> s[((i - 1) % Len(s)) + 1]]

\* char::to_string()
to_string(c) == <<c>>

\* vec![x; n]
vec(x, n) == [i \in 1..n |-> x]

RECURSIVE trim_start(_)
trim_start(s) ==
    IF s # <<>> /\ is_whitespace(Head(s)) THEN trim_start(Tail(s)) ELSE s

RECURSIVE trim_end(_)
trim_end(s) ==
    IF s # <<>> /\ is_whitespace(s[Len(s)])
    THEN trim_end(SubSeq(s, 1, Len(s) - 1))
    ELSE s

\* a bug that strips the leading whitespace only
trim_leading_only(s) == trim_start(s)

\* str::trim()
trim(s) == trim_end(trim_start(s))

RECURSIVE join_from(_, _, _)
join_from(rows, sep, i) ==
    IF i > Len(rows) THEN <<>>
    ELSE IF i = Len(rows) THEN rows[i]
    ELSE rows[i] \o sep \o join_from(rows, sep, i + 1)

\* a bug that terminates every row with the separator
RECURSIVE join_terminated(_, _)
join_terminated(rows, sep) ==
    IF rows = <<>> THEN <<>>
    ELSE Head(rows) \o sep \o join_terminated(Tail(rows), sep)

\* [String]::join(sep)
join(rows, sep) == join_from(rows, sep, 1)

\* usize `+` with overflow checks off
wrapping_add(a, b) == (a + b) % (USIZE_MAX + 1)

RECURSIVE wrapping_sum(_)
wrapping_sum(xs) ==
    IF xs = <<>> THEN 0 ELSE wrapping_add(Head(xs), wrapping_sum(Tail(xs)))

RECURSIVE plain_sum(_)
plain_sum(xs) ==
    IF xs = <<>> THEN 0 ELSE Head(xs) + plain_sum(Tail(xs))

\* a chain of usize `+` leaves the range of usize somewhere (the operands are
\* non-negative, so that is when the mathematical sum does)
add_overflows(xs) == plain_sum(xs) > USIZE_MAX

\* ------------------------------------------------------ TextBorderOptions
\* the tuples of n thicknesses whose sum is at most total
RECURSIVE bounded_tuples(_, _)
bounded_tuples(n, total) ==
    IF n = 0 THEN {<<>>}
    ELSE UNION {{<<v>> \o t : t \in bounded_tuples(n - 1, total - v)} : v \in 0..total}

\* thickness tuples (left, top, right, bottom) the message-rich Init draws:
\* none, the default border, an asymmetric one
SampleThickness == {<<0, 0, 0, 0>>, <<1, 1, 1, 1>>, <<2, 1, 0, 1>>}

\* tuples with one field at the top of usize and the others equal
HugeThickness ==
    {[i \in 1..4 |-> IF i = k THEN USIZE_MAX ELSE t] : k \in 1..4, t \in {0, 1}}

\* struct TextBorderOptions, with the thicknesses drawn from SampleThickness
TextBorderOptions ==
    [border_char : BorderChars,
     border_thickness : SampleThickness,
     margin_thickness : SampleThickness,
     prevent_trim : BOOLEAN]

\* struct TextBorderOptions, with every split of up to MaxTotalThickness
\* over the eight thickness fields
LayoutTextBorderOptions ==
    {[border_char |-> c,
      border_thickness |-> SubSeq(t, 1, 4),
      margin_thickness |-> SubSeq(t, 5, 8),
      prevent_trim |-> p] :
        c \in BorderChars, t \in bounded_tuples(8, MaxTotalThickness), p \in BOOLEAN}

\* struct TextBorderOptions, with one thickness at usize::MAX
HugeTextBorderOptions ==
    [border_char : {"*", "U+2588"},
     border_thickness : HugeThickness,
     margin_thickness : {<<0, 0, 0, 0>>, <<1, 1, 1, 1>>},
     prevent_trim : {TRUE}]
    \cup
    [border_char : {"*", "U+2588"},
     border_thickness : {<<0, 0, 0, 0>>, <<1, 1, 1, 1>>},
     margin_thickness : HugeThickness,
     prevent_trim : {TRUE}]

\* a bug in the defaults: a margin of one on every side
default_with_margin ==
    [border_char |-> "*",
     border_thickness |-> <<1, 1, 1, 1>>,
     margin_thickness |-> <<1, 1, 1, 1>>,
     prevent_trim |-> FALSE]

\* impl Default for TextBorderOptions
default ==
    [border_char |-> "*",
     border_thickness |-> <<1, 1, 1, 1>>,
     margin_thickness |-> <<0, 0, 0, 0>>,
     prevent_trim |-> FALSE]

\* Option<TextBorderOptions>: None is <<>>, Some(o) is <<o>>
None == <<>>
Some(o) == <<o>>

\* Option::unwrap_or_default
unwrap_or_default(opt) == IF opt = None THEN default ELSE opt[1]

\* the message create_text_border lays out
effective_message(opts, msg) ==
    IF opts.prevent_trim THEN msg ELSE trim(msg)

\* the operands of the sum in create_border_line, in the order of the code
border_line_terms(opts, msg) ==
    <<byte_len(msg), opts.border_thickness[1], opts.border_thickness[3],
      opts.margin_thickness[1], opts.margin_thickness[3]>>

\* the operands of the sum in create_margin_line
margin_line_terms(opts, msg) ==
    <<byte_len(msg), opts.margin_thickness[1], opts.margin_thickness[3]>>

create_border_line(opts, msg) ==
    repeat(to_string(opts.border_char), wrapping_sum(border_line_terms(opts, msg)))

create_margin_line(opts, msg) ==
    repeat(to_string(opts.border_char), opts.border_thickness[1])
    \o repeat(<<SP>>, wrapping_sum(margin_line_terms(opts, msg)))
    \o repeat(to_string(opts.border_char), opts.border_thickness[3])

create_message_line(opts, msg) ==
    repeat(to_string(opts.border_char), opts.border_thickness[1])
    \o repeat(<<SP>>, opts.margin_thickness[1])
    \o msg
    \o repeat(<<SP>>, opts.margin_thickness[3])
    \o repeat(to_string(opts.border_char), opts.border_thickness[3])

\* a bug that takes the bottom counts for the top block and the top counts
\* for the bottom block
rows_swapped(opts, hb, ml, line) ==
    vec(hb, opts.border_thickness[4])
    \o vec(ml, opts.margin_thickness[4])
    \o <<line>>
    \o vec(ml, opts.margin_thickness[2])
    \o vec(hb, opts.border_thickness[2])

\* a bug that forgets the bottom margin block
rows_no_bottom_margin(opts, hb, ml, line) ==
    vec(hb, opts.border_thickness[2])
    \o vec(ml, opts.margin_thickness[2])
    \o <<line>>
    \o vec(hb, opts.border_thickness[4])

\* the Vec create_text_border fills: two extends, a push, two extends
rows(opts, hb, ml, line) ==
    vec(hb, opts.border_thickness[2])
    \o vec(ml, opts.margin_thickness[2])
    \o <<line>>
    \o vec(ml, opts.margin_thickness[4])
    \o vec(hb, opts.border_thickness[4])

\* the String create_text_border returns for an unwrapped opts and a message
text_border(opts, msg) ==
    LET om == effective_message(opts, msg)
    IN  join(rows(opts, create_border_line(opts, om), create_margin_line(opts, om),
                  create_message_line(opts, om)),
             <<NL>>)

\* ------------------------------------------------------------- panics
\* Vec::with_capacity / RawVec: a request above isize::MAX bytes panics with
\* "capacity overflow" (str::repeat and vec![x; n] both allocate up front)
capacity_overflows(bytes) == bytes > ISIZE_MAX

\* the first panic create_text_border runs into, "" when it returns.
\* overflow_checks is the build profile: TRUE panics on an overflowing `+`,
\* FALSE wraps it.
first_panic(opts, msg, overflow_checks) ==
    LET bc == len_utf8(opts.border_char)
        bt == opts.border_thickness
        mt == opts.margin_thickness
        border_n == wrapping_sum(border_line_terms(opts, msg))
        margin_n == wrapping_sum(margin_line_terms(opts, msg))
        sides == bc * bt[1] + bc * bt[3]
        widest == bc * border_n
    IN  IF overflow_checks /\ add_overflows(border_line_terms(opts, msg))
            THEN "attempt to add with overflow"
        ELSE IF capacity_overflows(bc * border_n) THEN "capacity overflow"
        ELSE IF capacity_overflows(bc * bt[1]) THEN "capacity overflow"
        ELSE IF overflow_checks /\ add_overflows(margin_line_terms(opts, msg))
            THEN "attempt to add with overflow"
        ELSE IF capacity_overflows(margin_n) THEN "capacity overflow"
        ELSE IF capacity_overflows(bc * bt[3]) THEN "capacity overflow"
        ELSE IF capacity_overflows(sides + margin_n) THEN "capacity overflow"
        ELSE IF capacity_overflows(StringSize * bt[2]) THEN "capacity overflow"
        ELSE IF capacity_overflows(StringSize * mt[2]) THEN "capacity overflow"
        ELSE IF capacity_overflows(mt[1]) THEN "capacity overflow"
        ELSE IF capacity_overflows(mt[3]) THEN "capacity overflow"
        ELSE IF capacity_overflows(sides + mt[1] + byte_len(msg) + mt[3])
            THEN "capacity overflow"
        ELSE IF capacity_overflows(StringSize * mt[4]) THEN "capacity overflow"
        ELSE IF capacity_overflows(StringSize * bt[4]) THEN "capacity overflow"
        ELSE IF capacity_overflows(StringSize * (bt[2] + mt[2] + 1 + mt[4] + bt[4]))
            THEN "capacity overflow"
        ELSE IF capacity_overflows((bt[2] + mt[2] + 1 + mt[4] + bt[4]) * (widest + 1))
            THEN "capacity overflow"
        ELSE ""

\* ---------------------------------------------------------------- state
VARIABLES
    message,            \* argument `message`
    options,            \* argument `options`, an Option<TextBorderOptions>
    pc,                 \* "ready", "returned" or "panicked"
    output_message,     \* local output_message
    horizontal_border,  \* local horizontal_border
    margin_line,        \* local margin_line
    bordered_message,   \* local bordered_message, the Vec of rows
    output,             \* the String returned
    panic_msg           \* the panic's message when pc = "panicked"

vars == <<message, options, pc, output_message, horizontal_border, margin_line,
          bordered_message, output, panic_msg>>

RECURSIVE Strings(_)
Strings(n) ==
    IF n = 0 THEN {<<>>}
    ELSE LET shorter == Strings(n - 1)
         IN  shorter \cup {Append(s, c) : s \in {t \in shorter : Len(t) = n - 1},
                                          c \in MessageChars}

Messages == Strings(MaxLen)

\* the messages InitLayout draws: empty, ASCII, with a 2-byte char, with an
\* inner line break, with whitespace around
LayoutMessages ==
    {<<>>, <<"a">>, <<"U+00E9", "a">>, <<"a", NL, "a">>, <<SP, "a", SP>>}

Fresh ==
    /\ pc = "ready"
    /\ output_message = <<>>
    /\ horizontal_border = <<>>
    /\ margin_line = <<>>
    /\ bordered_message = <<>>
    /\ output = <<>>
    /\ panic_msg = ""

\* every message up to MaxLen, a sample of thicknesses
Init ==
    /\ message \in Messages
    /\ options \in {None} \cup {Some(o) : o \in TextBorderOptions \cup HugeTextBorderOptions}
    /\ Fresh

\* a sample of messages, every thickness tuple up to MaxTotalThickness
InitLayout ==
    /\ message \in LayoutMessages
    /\ options \in {None}
                   \cup {Some(o) : o \in LayoutTextBorderOptions \cup HugeTextBorderOptions}
    /\ Fresh

\* a call of create_text_border that returns
create_text_border ==
    /\ pc = "ready"
    /\ \E overflow_checks \in BOOLEAN :
         LET opts == unwrap_or_default(options)
             om == effective_message(opts, message)
         IN  /\ first_panic(opts, om, overflow_checks) = ""
             /\ output_message' = om
             /\ horizontal_border' = create_border_line(opts, om)
             /\ margin_line' = create_margin_line(opts, om)
             /\ bordered_message' =
                    rows(opts, create_border_line(opts, om), create_margin_line(opts, om),
                         create_message_line(opts, om))
             /\ output' = text_border(opts, message)
    /\ pc' = "returned"
    /\ UNCHANGED <<message, options, panic_msg>>

\* a call of create_text_border that panics: nothing is returned
create_text_border_panics ==
    /\ pc = "ready"
    /\ \E overflow_checks \in BOOLEAN :
         LET opts == unwrap_or_default(options)
             om == effective_message(opts, message)
         IN  /\ first_panic(opts, om, overflow_checks) # ""
             /\ panic_msg' = first_panic(opts, om, overflow_checks)
    /\ pc' = "panicked"
    /\ UNCHANGED <<message, options, output_message, horizontal_border, margin_line,
                   bordered_message, output>>

Next ==
    \/ create_text_border
    \/ create_text_border_panics

Spec == Init /\ [][Next]_vars

SpecLayout == InitLayout /\ [][Next]_vars

TypeOK ==
    /\ pc \in {"ready", "returned", "panicked"}
    /\ panic_msg \in {"", "attempt to add with overflow", "capacity overflow"}

\* ======================================================================
\* Properties.  They are stated with the definitions below, which measure a
\* string by its characters (Len) and build runs and lines on their own.
\* ======================================================================
Returned == pc = "returned"
Opts == unwrap_or_default(options)
BL == Opts.border_thickness[1]
BT == Opts.border_thickness[2]
BR == Opts.border_thickness[3]
BB == Opts.border_thickness[4]
ML == Opts.margin_thickness[1]
MT == Opts.margin_thickness[2]
MR == Opts.margin_thickness[3]
MB == Opts.margin_thickness[4]

\* c repeated n times
Run(c, n) == [i \in 1..n |-> c]

\* the number of line breaks of s
RECURSIVE Breaks(_)
Breaks(s) ==
    IF s = <<>> THEN 0 ELSE (IF Head(s) = NL THEN 1 ELSE 0) + Breaks(Tail(s))

\* s split on the line break: Breaks(s) + 1 lines, the empty string has one
RECURSIVE LinesFrom(_, _)
LinesFrom(s, line) ==
    IF s = <<>> THEN <<line>>
    ELSE IF Head(s) = NL THEN <<line>> \o LinesFrom(Tail(s), <<>>)
    ELSE LinesFrom(Tail(s), Append(line, Head(s)))

Lines(s) == LinesFrom(s, <<>>)

HasBreak(s) == \E i \in 1..Len(s) : s[i] = NL

\* t is m without its leading and trailing whitespace
IsTrimOf(t, m) ==
    /\ t # <<>> => ~is_whitespace(t[1]) /\ ~is_whitespace(t[Len(t)])
    /\ \E i \in 0..Len(m) :
         /\ i + Len(t) <= Len(m)
         /\ t = SubSeq(m, i + 1, i + Len(t))
         /\ \A k \in 1..Len(m) : (k <= i \/ k > i + Len(t)) => is_whitespace(m[k])

Substrings(m) == {SubSeq(m, i, j) : i \in 1..(Len(m) + 1), j \in 0..Len(m)}

\* the characters of content between the side borders and side margins
ContentWidth == Len(output_message)
TotalWidth == ContentWidth + BL + BR + ML + MR
RowCount == BT + MT + 1 + MB + BB

\* the message row a message m should give
MessageRow(m) ==
    Run(Opts.border_char, BL) \o Run(SP, ML) \o m \o Run(SP, MR)
    \o Run(Opts.border_char, BR)

\* the row of the output that holds the message
MessageRowOfOutput == bordered_message[BT + MT + 1]

AllThicknessZero ==
    /\ Opts.border_thickness = <<0, 0, 0, 0>>
    /\ Opts.margin_thickness = <<0, 0, 0, 0>>

\* C1 (as claimed): every line of the returned string has the same length,
\* content_width + left and right border + left and right margin, with
\* content_width the number of characters of the effective message.  The
\* lines are taken as the rows the string is joined from, so that a line break
\* inside a row does not count against the claim.
C1_EveryLineHasTotalWidth ==
    Returned =>
        \A i \in 1..Len(bordered_message) : Len(bordered_message[i]) = TotalWidth

\* C2 (as claimed): for every message the returned string, split on the line
\* break, has top border + top margin + 1 + bottom margin + bottom border lines.
C2_LineCountForEveryMessage ==
    Returned => Len(Lines(output)) = RowCount

\* C2 (amended): when neither the effective message nor the border character
\* holds a line break, the returned string split on the line break has
\* top border + top margin + 1 + bottom margin + bottom border lines.
C2_LineCountWithoutBreaks ==
    (Returned /\ ~HasBreak(output_message) /\ Opts.border_char # NL)
        => Len(Lines(output)) = RowCount

C2_Witness ==
    /\ Returned
    /\ ~HasBreak(output_message)
    /\ Opts.border_char # NL
    /\ BT > 0 /\ MT > 0 /\ MB > 0 /\ BB > 0
    /\ BT # BB
    /\ Len(Lines(output)) = RowCount

\* C3 (as claimed): the border line is border_char repeated (number of
\* characters of the effective message + left and right border + left and
\* right margin) times.
C3_BorderLineCountsCharacters ==
    Returned => horizontal_border = Run(Opts.border_char, TotalWidth)

\* C4: with prevent_trim false the message row is the left border, the left
\* margin, the message without its leading and trailing whitespace, the right
\* margin, the right border; with every thickness zero the output is the
\* trimmed message.
C4_MessageRowHoldsTrimmedMessage ==
    (Returned /\ ~Opts.prevent_trim) =>
        \E t \in Substrings(message) :
            /\ IsTrimOf(t, message)
            /\ MessageRowOfOutput = MessageRow(t)
            /\ AllThicknessZero => output = t

C4_Witness ==
    /\ Returned
    /\ options # None
    /\ ~Opts.prevent_trim
    /\ Len(message) = 3
    /\ is_whitespace(message[1])
    /\ ~is_whitespace(message[2])
    /\ is_whitespace(message[3])
    /\ BL = 2 /\ ML = 1
    /\ MessageRowOfOutput = MessageRow(<<message[2]>>)

\* C5 (as claimed): with prevent_trim true the content region of the message
\* row is the original message, whitespace included, and the width the border
\* and margin rows are built for is the length of the untrimmed message.
C5_VerbatimMessageAndWidth ==
    (Returned /\ Opts.prevent_trim) =>
        /\ MessageRowOfOutput = MessageRow(message)
        /\ Len(horizontal_border) = Len(message) + BL + BR + ML + MR
        /\ Len(margin_line) = Len(message) + BL + BR + ML + MR

\* C6: a call without options returns what a call with the explicit default
\* ('*', border 1 on every side, margin 0 on every side, trimming) returns:
\* three rows, a border, '*' + trimmed message + '*', a border.
C6_NoneIsExplicitDefault ==
    (Returned /\ options = None) =>
        /\ output = text_border([border_char |-> "*",
                                 border_thickness |-> <<1, 1, 1, 1>>,
                                 margin_thickness |-> <<0, 0, 0, 0>>,
                                 prevent_trim |-> FALSE], message)
        /\ Len(bordered_message) = 3
        /\ \E t \in Substrings(message) :
               /\ IsTrimOf(t, message)
               /\ bordered_message[2] = <<"*">> \o t \o <<"*">>
        /\ bordered_message[1] = bordered_message[3]
        /\ Len(bordered_message[1]) >= 2
        /\ \A i \in 1..Len(bordered_message[1]) : bordered_message[1][i] = "*"

C6_Witness ==
    /\ Returned
    /\ options = None
    /\ Len(message) = 3
    /\ is_whitespace(message[1])
    /\ bordered_message[2] = <<"*", "a", "*">>

\* C7 (as claimed): create_text_border never fails, whatever the message, the
\* border character and the thicknesses.
C7_NeverFails ==
    pc # "panicked"

\* C8: the rows are top border copies of the border line, top margin copies
\* of the margin line, one message line, bottom margin copies of the margin
\* line, bottom border copies of the border line, in this order.
C8_RowOrder ==
    Returned =>
        /\ Len(bordered_message) = RowCount
        /\ \A i \in 1..Len(bordered_message) :
            bordered_message[i] =
                IF i <= BT THEN horizontal_border
                ELSE IF i <= BT + MT THEN margin_line
                ELSE IF i = BT + MT + 1 THEN MessageRow(output_message)
                ELSE IF i <= BT + MT + 1 + MB THEN margin_line
                ELSE horizontal_border

C8_Witness ==
    /\ Returned
    /\ BT = 2 /\ MT = 1 /\ MB = 0 /\ BB = 1
    /\ output_message # <<>>
    /\ bordered_message =
         <<horizontal_border, horizontal_border, margin_line,
           MessageRow(output_message), horizontal_border>>
    /\ horizontal_border # margin_line
    /\ margin_line # MessageRow(output_message)

\* C9 (as claimed): every margin row is border_char x left border, then
\* content_width + left margin + right margin spaces, then border_char x right
\* border.
C9_MarginRow ==
    Returned =>
        \A i \in 1..Len(bordered_message) :
            ((BT < i /\ i <= BT + MT) \/ (BT + MT + 1 < i /\ i <= BT + MT + 1 + MB))
                => bordered_message[i] =
                       Run(Opts.border_char, BL) \o Run(SP, ContentWidth + ML + MR)
                       \o Run(Opts.border_char, BR)

\* C10 (as claimed): for every message the output holds rows - 1 line breaks,
\* one between each two consecutive rows, none before the first row and none
\* after the last.
C10_BreaksForEveryMessage ==
    Returned =>
        /\ Breaks(output) = Len(bordered_message) - 1
        /\ Lines(output) = bordered_message

\* C10 (amended): when neither the effective message nor the border character
\* holds a line break, the output is its rows with one line break between
\* consecutive rows: rows - 1 line breaks, and splitting on the line break
\* gives the rows back, so none leads and none trails (a non-empty first row
\* starts the output, a non-empty last row ends it).
C10_BreaksWithoutBreaksInRows ==
    (Returned /\ ~HasBreak(output_message) /\ Opts.border_char # NL) =>
        /\ Breaks(output) = Len(bordered_message) - 1
        /\ Lines(output) = bordered_message
        /\ TotalWidth > 0 => output[1] # NL /\ output[Len(output)] # NL

C10_Witness ==
    /\ Returned
    /\ ~HasBreak(output_message)
    /\ Opts.border_char # NL
    /\ Len(bordered_message) = 4
    /\ Breaks(output) = 3
    /\ output[1] # NL
    /\ output[Len(output)] # NL

====
